---------------------------- MODULE Spec2Model ----------------------------
(***************************************************************************)
(* API-TRACKER: the request execution and telemetry aggregation subsystem. *)
(*                                                                         *)
(*   - src/routes/api.js       POST /endpoints/:id/test (the probe)        *)
(*   - src/routes/tracking.js  GET /dashboard, GET /analytics,             *)
(*                             GET /performance                            *)
(*   - src/models/ApiEndpoint.js, src/unnamed/part_001 (ApiRequest model)  *)
(*                                                                         *)
(* Time is counted in minutes since 1970-01-01T00:00Z.  MongoDB's date     *)
(* operators work in UTC; the Date constructor of the route handlers works *)
(* in the server's zone, which is taken to be UTC as well.                 *)
(***************************************************************************)
EXTENDS Integers, Sequences, FiniteSets, TLC

VARIABLES
    now,          \* the server clock
    endpoints,    \* the ApiEndpoint collection: id -> document
    apiRequests,  \* the ApiRequest collection: a set of documents
    analytics,    \* the last answer of GET /analytics (with its query)
    overview,     \* the last answer of GET /dashboard (overview part)
    testPc,       \* POST /endpoints/:id/test: where each request stands
    testLoc,      \* ... and its local variables
    recPc,        \* the recording section of the probe: where each request stands
    recLoc,       \* ... and its local variables
    recLog,       \* history of the recording section (kept for the properties)
    performance,  \* the last answer of GET /performance (with its query)
    ttlMonitor,   \* the TTL monitor: the clock at its last pass, documents deleted
    doc,          \* ApiRequest.save(): the document handed to it
    products,     \* the Product collection: id -> document
    crudPc,       \* the endpoint and product requests: where each one stands
    crudLoc,      \* ... and its local variables
    crudLog       \* requests started and endpoints created so far

vars == <<now, endpoints, apiRequests, analytics, overview,
          testPc, testLoc, recPc, recLoc, recLog, performance, ttlMonitor, doc,
          products, crudPc, crudLoc, crudLog>>

-----------------------------------------------------------------------------
(* Bounds of the model *)

MaxRecords == 2      \* documents in the ApiRequest collection of SpecAnalytics
MaxProbes == 3       \* probes started in SpecRecorder

-----------------------------------------------------------------------------
(* Arithmetic of the JavaScript runtime *)

\* Math.round(a / b) for b > 0: floor(a / b + 1/2), ties go up.
MathRound(a, b) == (2 * a + b) \div (2 * b)

-----------------------------------------------------------------------------
(* Calendar: what Date and the MongoDB date operators compute *)

IsLeap(y) == (y % 4 = 0 /\ y % 100 # 0) \/ y % 400 = 0

DaysInYear(y) == IF IsLeap(y) THEN 366 ELSE 365

DaysInMonth(y, m) ==
    IF m = 2 THEN (IF IsLeap(y) THEN 29 ELSE 28)
    ELSE IF m \in {4, 6, 9, 11} THEN 30 ELSE 31

\* days from 1970-01-01 to 1 January of year y >= 1970: 365 a year and one
\* more for every leap year before y
DaysBeforeYear(y) ==
    365 * (y - 1970) + (y - 1969) \div 4 - (y - 1901) \div 100 + (y - 1601) \div 400

RECURSIVE DaysBeforeMonth(_, _)
DaysBeforeMonth(y, m) ==
    IF m <= 1 THEN 0 ELSE DaysBeforeMonth(y, m - 1) + DaysInMonth(y, m - 1)

\* new Date(year, monthIndex, day, hours): day may lie outside the month
\* (1 + (week - 1) * 7 is -6 for week 0), the Date then rolls over.
NewDate(year, monthIndex, day, hours) ==
    (DaysBeforeYear(year) + DaysBeforeMonth(year, monthIndex + 1) + (day - 1)) * 1440
        + hours * 60

DayNumber(t) == t \div 1440

RECURSIVE YearFrom(_, _)
YearFrom(y, d) == IF d < DaysBeforeYear(y + 1) THEN y ELSE YearFrom(y + 1, d)

\* $year (no year has more than 366 days, so the search starts at or before it)
Year(t) == YearFrom(1970 + DayNumber(t) \div 366, DayNumber(t))

\* day of the year, 0 for 1 January
YearDay(t) == DayNumber(t) - DaysBeforeYear(Year(t))

RECURSIVE MonthFrom(_, _, _)
MonthFrom(y, m, d) ==
    IF d < DaysInMonth(y, m) THEN m ELSE MonthFrom(y, m + 1, d - DaysInMonth(y, m))

\* $month, 1..12
Month(t) == MonthFrom(Year(t), 1, YearDay(t))

\* $dayOfMonth, 1..31
DayOfMonth(t) == YearDay(t) - DaysBeforeMonth(Year(t), Month(t)) + 1

\* $hour, 0..23
Hour(t) == (t % 1440) \div 60

\* day of the week, 0 for Sunday (1970-01-01 was a Thursday)
WeekDay(t) == (DayNumber(t) + 4) % 7

\* $week, 0..53: weeks begin on Sunday, week 1 begins with the first Sunday
\* of the year, the days before it are week 0.
Week(t) == (YearDay(t) + 7 - WeekDay(t)) \div 7


-----------------------------------------------------------------------------
(* The stored documents *)

Products == {"p1", "p2"}

EndpointIds == {"e1", "e2"}

\* ApiEndpoint.product of the two registered endpoints
ProductOf(e) == IF e = "e1" THEN "p1" ELSE "p2"

Environments == {"development", "production"}

\* a query parameter that was not given
NoFilter == ""

\* ApiEndpoint.metrics of a new endpoint: the schema defaults
DefaultMetrics ==
    [totalRequests |-> 0, successfulRequests |-> 0, failedRequests |-> 0,
     averageResponseTime |-> 0]

\* timing.startTime of the sample documents: two in one hour, a third later
\* that day (Monday 2012-12-31, $week 53), one on Tuesday 2013-01-01 ($week 0)
\* and one two weeks later, exactly 24 hours before Clock.
Instants ==
    { NewDate(2012, 11, 31, 10) + 15, NewDate(2012, 11, 31, 10) + 45,
      NewDate(2012, 11, 31, 23) + 30, NewDate(2013, 0, 1, 0) + 20,
      NewDate(2013, 0, 15, 10) }

Clock == NewDate(2013, 0, 16, 10)

\* userId of a document written without one: the schema default, null
NoUser == "null"

\* endpoint, environment, response.statusCode, timing.duration and userId of
\* the sample documents: every pair of endpoint, environment and outcome
\* occurs; the documents of the manual probe carry no user.
Profiles ==
    { [endpoint |-> "e1", environment |-> "development", statusCode |-> 200, duration |-> 100,
       userId |-> NoUser],
      [endpoint |-> "e1", environment |-> "production",  statusCode |-> 500, duration |-> 300,
       userId |-> "u1"],
      [endpoint |-> "e2", environment |-> "development", statusCode |-> 500, duration |-> 200,
       userId |-> NoUser],
      [endpoint |-> "e2", environment |-> "production",  statusCode |-> 200, duration |-> 201,
       userId |-> "u2"] }

\* An ApiRequest document (the fields the routes read)
ApiRequest(requestId, endpoint, environment, statusCode, startTime, duration) ==
    [requestId |-> requestId, endpoint |-> endpoint, product |-> ProductOf(endpoint),
     environment |-> environment, statusCode |-> statusCode,
     startTime |-> startTime, duration |-> duration, userId |-> NoUser]

SampleRequests ==
    { [ApiRequest(0, p.endpoint, p.environment, p.statusCode, t, p.duration)
           EXCEPT !.userId = p.userId] :
        p \in Profiles, t \in Instants }

-----------------------------------------------------------------------------
(* GET /api/tracking/analytics *)

Periods == {"1h", "24h", "7d", "30d", "all"}

GroupBys == {"hour", "day", "week", "month"}

\* startDate of the period, counted back from the clock
StartDate(period, t) ==
    CASE period = "1h"  -> t - 60
      [] period = "24h" -> t - 1440
      [] period = "7d"  -> t - 7 * 1440
      [] period = "30d" -> t - 30 * 1440
      [] period = "all" -> 0

\* the $match stage with $gt in the place of $gte
MatchesAfter(r, startDate, product, environment) ==
    /\ r.startTime > startDate
    /\ product # NoFilter => r.product = product
    /\ environment # NoFilter => r.environment = environment

\* { $match: filter }
Matches(r, startDate, product, environment) ==
    /\ r.startTime >= startDate
    /\ product # NoFilter => r.product = product
    /\ environment # NoFilter => r.environment = environment

\* _id of the $group stage
GroupFields(groupBy, t) ==
    CASE groupBy = "hour"  ->
            [year |-> Year(t), month |-> Month(t), day |-> DayOfMonth(t), hour |-> Hour(t)]
      [] groupBy = "day"   ->
            [year |-> Year(t), month |-> Month(t), day |-> DayOfMonth(t)]
      [] groupBy = "week"  -> [year |-> Year(t), week |-> Week(t)]
      [] groupBy = "month" -> [year |-> Year(t), month |-> Month(t)]

IsSuccess(statusCode) == statusCode >= 200 /\ statusCode < 300

IsError(statusCode) == statusCode >= 400

RECURSIVE SumDuration(_)
SumDuration(S) ==
    IF S = {} THEN 0
    ELSE LET r == CHOOSE x \in S : TRUE IN r.duration + SumDuration(S \ {r})

\* One group of the $group stage with the $addFields of the next stage.
\* successRate and avgResponseTime are kept as the fractions Math.round gets.
Group(id, S) ==
    [_id |-> id,
     totalRequests |-> Cardinality(S),
     successfulRequests |-> Cardinality({r \in S : IsSuccess(r.statusCode)}),
     failedRequests |-> Cardinality({r \in S : IsError(r.statusCode)}),
     sumDuration |-> SumDuration(S),
     uniqueUsers |-> {r.userId : r \in S}]

\* the value a missing _id field has for $sort: null sorts before every number
IdField(id, f) == IF f \in DOMAIN id THEN id[f] ELSE -1

\* { $sort: { '_id.year': 1, '_id.month': 1, '_id.day': 1, '_id.hour': 1, '_id.week': 1 } }
SortKey(id) ==
    <<IdField(id, "year"), IdField(id, "month"), IdField(id, "day"),
      IdField(id, "hour"), IdField(id, "week")>>

RECURSIVE KeyLess(_, _)
KeyLess(a, b) ==
    /\ a # <<>>
    /\ \/ Head(a) < Head(b)
       \/ Head(a) = Head(b) /\ KeyLess(Tail(a), Tail(b))

RECURSIVE Sorted(_)
Sorted(G) ==
    IF G = {} THEN <<>>
    ELSE LET first == CHOOSE g \in G :
                         \A h \in G \ {g} : KeyLess(SortKey(g._id), SortKey(h._id))
         IN <<first>> \o Sorted(G \ {first})

\* ApiRequest.aggregate([$match, $group, $addFields, $sort])
Aggregate(docs, startDate, groupBy, product, environment) ==
    LET matching == {r \in docs : Matches(r, startDate, product, environment)}
        idOf == [r \in matching |-> GroupFields(groupBy, r.startTime)]
    IN Sorted({ Group(id, {r \in matching : idOf[r] = id}) :
                  id \in {idOf[r] : r \in matching} })

\* timestamp of a formatted bucket
Timestamp(groupBy, id) ==
    CASE groupBy = "hour"  -> NewDate(id.year, id.month - 1, id.day, id.hour)
      [] groupBy = "day"   -> NewDate(id.year, id.month - 1, id.day, 0)
      [] groupBy = "week"  -> NewDate(id.year, 0, 1 + (id.week - 1) * 7, 0)
      [] groupBy = "month" -> NewDate(id.year, id.month - 1, 1, 0)

\* successRate of the $addFields stage, rounded by the formatter
BucketSuccessRate(g) ==
    IF g.totalRequests = 0 THEN 100
    ELSE MathRound(g.successfulRequests * 100, g.totalRequests)

\* formattedAnalytics
Formatted(groupBy, g) ==
    [timestamp |-> Timestamp(groupBy, g._id),
     totalRequests |-> g.totalRequests,
     successfulRequests |-> g.successfulRequests,
     failedRequests |-> g.failedRequests,
     successRate |-> BucketSuccessRate(g),
     avgResponseTime |-> MathRound(g.sumDuration, g.totalRequests),
     uniqueUserCount |-> Cardinality(g.uniqueUsers)]

FormattedAnalytics(docs, startDate, groupBy, product, environment) ==
    LET a == Aggregate(docs, startDate, groupBy, product, environment)
    IN [i \in 1..Len(a) |-> Formatted(groupBy, a[i])]

NoAnswer == [period |-> "none"]

\* no document is being saved
NoDoc == [state |-> "none"]

\* The handler: one query, answered from the collection as it is.  Queries
\* only read, so a run of the model looks at one of them.
GetAnalytics ==
    /\ analytics = NoAnswer /\ overview = NoAnswer /\ performance = NoAnswer
    /\ \E period \in Periods, groupBy \in GroupBys,
          product \in Products \cup {NoFilter},
          environment \in Environments \cup {NoFilter} :
          analytics' =
              [period |-> period, groupBy |-> groupBy, product |-> product,
               environment |-> environment, startDate |-> StartDate(period, now),
               analytics |-> FormattedAnalytics(apiRequests, StartDate(period, now),
                                                groupBy, product, environment)]
    /\ UNCHANGED <<products, crudPc, crudLoc, crudLog, performance, ttlMonitor, doc, now, endpoints, apiRequests, overview,
                   testPc, testLoc, recPc, recLoc, recLog>>

-----------------------------------------------------------------------------
(* GET /api/tracking/dashboard: the overview *)

\* overallMetrics[0], or the default object when nothing matches, with the
\* successRate the handler adds
Overview(docs, startDate, environment) ==
    LET matching == {r \in docs : Matches(r, startDate, NoFilter, environment)}
        total == Cardinality(matching)
        successful == Cardinality({r \in matching : IsSuccess(r.statusCode)})
    IN [totalRequests |-> total,
        successfulRequests |-> successful,
        failedRequests |-> Cardinality({r \in matching : IsError(r.statusCode)}),
        successRate |-> IF total > 0 THEN MathRound(successful * 100, total) ELSE 100]

\* { $limit: 10 } of topProducts
TopLimit == 10

\* one group of topProducts' $group stage, successRate as the handler rounds
\* it; avgResponseTime is kept as the sum $avg divides
ProductGroup(product, S) ==
    [_id |-> product,
     requestCount |-> Cardinality(S),
     sumDuration |-> SumDuration(S),
     successRate |-> MathRound(Cardinality({r \in S : IsSuccess(r.statusCode)}) * 100,
                               Cardinality(S))]

\* { $sort: { requestCount: -1 } }: the orders the stage can produce.  The
\* groups come out of $group in no defined order and the sort has no other
\* key, so groups with equal requestCount can come out either way round.
SortedByRequestCount(G) ==
    {s \in [1..Cardinality(G) -> G] :
        /\ \A i, j \in 1..Cardinality(G) : i # j => s[i] # s[j]
        /\ \A i, j \in 1..Cardinality(G) : i < j => s[i].requestCount >= s[j].requestCount}

Limit(s, n) == [i \in 1..(IF Len(s) < n THEN Len(s) ELSE n) |-> s[i]]

\* ApiRequest.aggregate([$match, $group by product, $sort, $limit])
TopProducts(docs, startDate, environment) ==
    LET matching == {r \in docs : Matches(r, startDate, NoFilter, environment)}
        groups == { ProductGroup(product, {r \in matching : r.product = product}) :
                      product \in {r.product : r \in matching} }
    IN {Limit(s, TopLimit) : s \in SortedByRequestCount(groups)}

GetDashboard ==
    /\ analytics = NoAnswer /\ overview = NoAnswer /\ performance = NoAnswer
    /\ \E period \in Periods, environment \in Environments \cup {NoFilter} :
          \E topProducts \in TopProducts(apiRequests, StartDate(period, now), environment) :
              overview' = [period |-> period, environment |-> environment,
                           startDate |-> StartDate(period, now),
                           overview |-> Overview(apiRequests, StartDate(period, now),
                                                 environment),
                           topProducts |-> topProducts]
    /\ UNCHANGED <<products, crudPc, crudLoc, crudLog, performance, ttlMonitor, doc, now, endpoints, apiRequests, analytics,
                   testPc, testLoc, recPc, recLoc, recLog>>

-----------------------------------------------------------------------------
(* GET /api/tracking/performance *)

\* { $match: filter } of the performance query
MatchesPerformance(r, startDate, product, endpoint) ==
    /\ r.startTime >= startDate
    /\ product # NoFilter => r.product = product
    /\ endpoint # NoFilter => r.endpoint = endpoint

\* the accumulator of the $group stage as the handler writes it:
\* { $percentile: { input: '$timing.duration', p: 0.5 } }
PercentileAccumulator == [input |-> "$timing.duration", p |-> "number"]

\* What the database takes for a $percentile accumulator: an array p and
\* method 'approximate' (MongoDB 7.0 on; a server before 7.0 knows no
\* $percentile at all).  Anything else fails the aggregate command.
AcceptsPercentile(accumulator) ==
    /\ "method" \in DOMAIN accumulator
    /\ accumulator.method = "approximate"
    /\ accumulator.p = "array"

\* result.metrics of the lines 667-695 from the counts of the $group stage:
\* the defaults when nothing matched, the two percentages only when
\* totalRequests > 0
PerformanceMetrics(S) ==
    LET counts == [totalRequests |-> Cardinality(S),
                   slowRequests |-> Cardinality({r \in S : r.duration > 1000}),
                   verySlowRequests |-> Cardinality({r \in S : r.duration > 5000})]
    IN IF counts.totalRequests > 0
       THEN [totalRequests |-> counts.totalRequests,
             slowRequests |-> counts.slowRequests,
             verySlowRequests |-> counts.verySlowRequests,
             slowRequestPercentage |->
                 MathRound(counts.slowRequests * 100, counts.totalRequests),
             verySlowRequestPercentage |->
                 MathRound(counts.verySlowRequests * 100, counts.totalRequests)]
       ELSE counts

\* boundaries of the $bucket stage
Boundaries == <<0, 100, 500, 1000, 2000, 5000, 10000, 30000>>

\* the bin $bucket puts a duration into: i for boundaries[i] <= duration <
\* boundaries[i + 1] (the bin with _id boundaries[i]), 0 for the default bin
\* (_id 'slow'), which takes every value outside the boundaries
BucketOf(duration) ==
    IF \E i \in 1..(Len(Boundaries) - 1) :
           Boundaries[i] <= duration /\ duration < Boundaries[i + 1]
    THEN CHOOSE i \in 1..(Len(Boundaries) - 1) :
             Boundaries[i] <= duration /\ duration < Boundaries[i + 1]
    ELSE 0

\* responseTimeDistribution: one document for each bin that is not empty
ResponseTimeDistribution(S) ==
    { [_id |-> b, count |-> Cardinality({r \in S : BucketOf(r.duration) = b})] :
        b \in {BucketOf(r.duration) : r \in S} }

\* The handler.  Its first aggregate holds four $percentile accumulators;
\* the database rejects the pipeline, the await throws and the catch answers
\* 500, whatever the filter and whatever is stored.
GetPerformance ==
    /\ analytics = NoAnswer /\ overview = NoAnswer /\ performance = NoAnswer
    /\ \E period \in Periods, product \in Products \cup {NoFilter},
          endpoint \in EndpointIds \cup {NoFilter} :
          LET startDate == StartDate(period, now)
              S == {r \in apiRequests : MatchesPerformance(r, startDate, product, endpoint)}
          IN performance' =
                 IF AcceptsPercentile(PercentileAccumulator)
                 THEN [period |-> period, product |-> product, endpoint |-> endpoint,
                       startDate |-> startDate, status |-> 200,
                       metrics |-> PerformanceMetrics(S),
                       responseTimeDistribution |-> ResponseTimeDistribution(S)]
                 ELSE [period |-> period, product |-> product, endpoint |-> endpoint,
                       startDate |-> startDate, status |-> 500,
                       message |-> "Server error while fetching performance data"]
    /\ UNCHANGED <<products, crudPc, crudLoc, crudLog, ttlMonitor, doc, now, endpoints, apiRequests, analytics, overview,
                   testPc, testLoc, recPc, recLoc, recLog>>

-----------------------------------------------------------------------------
(* ApiEndpoint: the successRate virtual *)

SuccessRate(metrics) ==
    IF metrics.totalRequests = 0 THEN 100
    ELSE MathRound(metrics.successfulRequests * 100, metrics.totalRequests)

-----------------------------------------------------------------------------
(* The analytics queries over a stored collection *)

Workers == {"w1", "w2"}

\* ApiEndpoint.headers of the registered endpoints, as name -> value
DeclaredHeaders == "Authorization" :> "declared"

\* A registered endpoint as POST /endpoints stores it
\* a Product document as POST /products and the endpoint requests leave it:
\* the two counters of metrics
Product(totalApis, activeApis) ==
    [metrics |-> [totalApis |-> totalApis, activeApis |-> activeApis]]

ApiEndpoint(product, status, baseUrl, path) ==
    [product |-> product, metrics |-> DefaultMetrics, status |-> status,
     baseUrl |-> baseUrl, path |-> path, fullUrl |-> baseUrl \o path,
     headers |-> DeclaredHeaders]

InitIdle ==
    /\ now = Clock
    /\ endpoints = [e \in EndpointIds |-> ApiEndpoint(ProductOf(e), "active", "a", "/x")]
    /\ analytics = NoAnswer
    /\ overview = NoAnswer
    /\ testPc = [w \in Workers |-> "idle"]
    /\ testLoc = [w \in Workers |-> <<>>]
    /\ recPc = [w \in Workers |-> "idle"]
    /\ recLoc = [w \in Workers |-> <<>>]
    /\ recLog = [started |-> 0, overlapped |-> FALSE,
                 completed |-> [e \in EndpointIds |-> 0],
                 successes |-> [e \in EndpointIds |-> 0],
                 errors |-> [e \in EndpointIds |-> 0],
                 sumDuration |-> [e \in EndpointIds |-> 0]]
    /\ performance = NoAnswer
    /\ ttlMonitor = [lastPass |-> -1, deleted |-> 0]
    /\ doc = NoDoc
    /\ products = [p \in Products |-> Product(1, 1)]
    /\ crudPc = [w \in Workers |-> "idle"]
    /\ crudLoc = [w \in Workers |-> <<>>]
    /\ crudLog = [started |-> 0, created |-> 0]

InitAnalytics ==
    /\ InitIdle
    /\ apiRequests \in {S \in SUBSET SampleRequests : Cardinality(S) <= MaxRecords}

NextAnalytics == GetAnalytics \/ GetDashboard \/ GetPerformance

SpecAnalytics == InitAnalytics /\ [][NextAnalytics]_vars

-----------------------------------------------------------------------------
(* POST /api/endpoints/:id/test, the probe, as the handler is written *)

\* what fetch can resolve with (response.status)
StatusCodes == {200, 302, 500}

\* milliseconds from startTime to endTime
Durations == {1, 2}

\* the _id values a request can name: the stored endpoints and one that is
\* not stored
RequestedIds == EndpointIds \cup {"e9"}

Response(status, message) == [status |-> status, message |-> message]

\* what stands at endpoint.fullUrl: a server that answers, one that cannot be
\* reached (or a runtime without fetch), one that accepts the call and keeps
\* the response open without end
Targets == {"answers", "refuses", "silent"}

\* req.body.headers: none, one that collides with a declared header, one
\* that does not
OverrideHeaders ==
    {[name \in {} |-> ""], "Authorization" :> "override", "Accept" :> "text/plain"}

\* requestOptions.headers: { 'Content-Type': 'application/json', ...headers }
RequestHeaders(headers) == headers @@ ("Content-Type" :> "application/json")

\* validationResult(req): malformed input is answered with 400
TestValidate(w) ==
    /\ testPc[w] = "idle"
    /\ \E id \in RequestedIds, valid \in BOOLEAN, headers \in OverrideHeaders :
          IF valid
          THEN /\ testPc' = [testPc EXCEPT ![w] = "find"]
               /\ testLoc' = [testLoc EXCEPT ![w] = [id |-> id, headers |-> headers]]
          ELSE /\ testPc' = [testPc EXCEPT ![w] = "done"]
               /\ testLoc' = [testLoc EXCEPT ![w] =
                      [id |-> id, fetch |-> "none",
                       response |-> Response(400, "Validation errors")]]
    /\ UNCHANGED <<products, crudPc, crudLoc, crudLog, performance, ttlMonitor, doc, now, endpoints, apiRequests, analytics, overview, recPc, recLoc, recLog>>

\* ApiEndpoint.findById(id): an unknown id is answered with 404; else the
\* url and the request options are prepared and the call is made
TestFindById(w) ==
    /\ testPc[w] = "find"
    /\ IF testLoc[w].id \in DOMAIN endpoints
       THEN /\ testPc' = [testPc EXCEPT ![w] = "fetch"]
            /\ \E target \in Targets :
                  testLoc' = [testLoc EXCEPT ![w] =
                      [id |-> testLoc[w].id, endpoint |-> endpoints[testLoc[w].id],
                       target |-> target, headers |-> testLoc[w].headers,
                       requestHeaders |-> RequestHeaders(testLoc[w].headers)]]
       ELSE /\ testPc' = [testPc EXCEPT ![w] = "done"]
            /\ testLoc' = [testLoc EXCEPT ![w] =
                   [id |-> testLoc[w].id, fetch |-> "none",
                    response |-> Response(404, "API endpoint not found")]]
    /\ UNCHANGED <<products, crudPc, crudLoc, crudLog, performance, ttlMonitor, doc, now, endpoints, apiRequests, analytics, overview, recPc, recLoc, recLog>>

\* await fetch(url, requestOptions) resolves: status and body are read.
\* requestOptions holds method, headers and body: no signal, no timeout, so
\* the two awaits end when the target ends them.
TestFetchResolves(w) ==
    /\ testPc[w] = "fetch"
    /\ testLoc[w].target = "answers"
    /\ \E statusCode \in StatusCodes, duration \in Durations :
          testLoc' = [testLoc EXCEPT ![w] =
              [id |-> testLoc[w].id, endpoint |-> testLoc[w].endpoint,
               fetch |-> "resolved", statusCode |-> statusCode,
               statusText |-> "from the response", duration |-> duration]]
    /\ testPc' = [testPc EXCEPT ![w] = "record"]
    /\ UNCHANGED <<products, crudPc, crudLoc, crudLog, performance, ttlMonitor, doc, now, endpoints, apiRequests, analytics, overview, recPc, recLoc, recLog>>

\* await fetch(url, requestOptions) rejects: the inner catch
TestFetchThrows(w) ==
    /\ testPc[w] = "fetch"
    /\ testLoc[w].target = "refuses"
    /\ \E duration \in Durations :
          testLoc' = [testLoc EXCEPT ![w] =
              [id |-> testLoc[w].id, endpoint |-> testLoc[w].endpoint,
               fetch |-> "threw", statusCode |-> 0,
               statusText |-> "Network Error", duration |-> duration]]
    /\ testPc' = [testPc EXCEPT ![w] = "record"]
    /\ UNCHANGED <<products, crudPc, crudLoc, crudLog, performance, ttlMonitor, doc, now, endpoints, apiRequests, analytics, overview, recPc, recLoc, recLog>>

\* new ApiRequest({... headers: responseHeaders || {} ...}): responseHeaders
\* is declared by const inside the try block, so the name is not bound here
\* and reading it throws a ReferenceError, on both paths.  The outer catch
\* answers 500; nothing has been saved.
TestNewApiRequest(w) ==
    /\ testPc[w] = "record"
    /\ testPc' = [testPc EXCEPT ![w] = "done"]
    /\ testLoc' = [testLoc EXCEPT ![w] =
           [id |-> testLoc[w].id, fetch |-> testLoc[w].fetch,
            statusCode |-> testLoc[w].statusCode,
            response |-> Response(500, "Server error while testing endpoint")]]
    /\ UNCHANGED <<products, crudPc, crudLoc, crudLog, performance, ttlMonitor, doc, now, endpoints, apiRequests, analytics, overview, recPc, recLoc, recLog>>

\* the response is sent: the request is over
TestEnd(w) ==
    /\ testPc[w] = "done"
    /\ testPc' = [testPc EXCEPT ![w] = "idle"]
    /\ testLoc' = [testLoc EXCEPT ![w] = <<>>]
    /\ UNCHANGED <<products, crudPc, crudLoc, crudLog, performance, ttlMonitor, doc, now, endpoints, apiRequests, analytics, overview, recPc, recLoc, recLog>>

Init ==
    /\ InitIdle
    /\ apiRequests = {}

Next ==
    \E w \in Workers :
        \/ TestValidate(w)
        \/ TestFindById(w)
        \/ TestFetchResolves(w)
        \/ TestFetchThrows(w)
        \/ TestNewApiRequest(w)
        \/ TestEnd(w)

Spec == Init /\ [][Next]_vars

\* The event loop runs every continuation that is ready: a request that has
\* been taken up goes on whenever it has a step to take.
Fairness ==
    \A w \in Workers :
        /\ WF_vars(TestFindById(w))
        /\ WF_vars(TestFetchResolves(w))
        /\ WF_vars(TestFetchThrows(w))
        /\ WF_vars(TestNewApiRequest(w))
        /\ WF_vars(TestEnd(w))

SpecLive == Init /\ [][Next]_vars /\ Fairness

-----------------------------------------------------------------------------
(* The recording statements of the probe (api.js 422-470) *)

(* SpecRecorder examines the statements that store the record and update   *)
(* the endpoint's metrics.  Each request enters them with the endpoint     *)
(* document findById returned (api.js 329) and with a constructed record;  *)
(* the handler as written stops one statement earlier (TestNewApiRequest). *)
(* Requests overlap: every await gives the other requests a turn.          *)

\* what a probe can have measured: a response with a status, or a transport
\* failure (statusCode 0), and the milliseconds it took
Outcomes == {<<200, 1>>, <<200, 2>>, <<302, 1>>, <<500, 2>>, <<0, 1>>}

\* endpoint.metrics after the statements 425-439, before the save
UpdateMetrics(m, statusCode, duration) ==
    LET totalRequests == m.totalRequests + 1 IN
    [totalRequests |-> totalRequests,
     successfulRequests |->
         IF statusCode >= 200 /\ statusCode < 300
         THEN m.successfulRequests + 1 ELSE m.successfulRequests,
     failedRequests |->
         IF ~(statusCode >= 200 /\ statusCode < 300) /\ statusCode >= 400
         THEN m.failedRequests + 1 ELSE m.failedRequests,
     averageResponseTime |->
         MathRound(m.averageResponseTime * (totalRequests - 1) + duration, totalRequests)]

\* the paths Mongoose finds modified: those set to a value that differs from
\* the loaded one
ModifiedPaths(loaded, updated) == {f \in DOMAIN loaded : loaded[f] # updated[f]}

\* endpoint.save() of a loaded document: updateOne({_id}, {$set: <the
\* modified paths>}); the paths it does not name keep what the store holds
SaveMetrics(stored, loaded, updated) ==
    [f \in DOMAIN stored |->
        IF f \in ModifiedPaths(loaded, updated) THEN updated[f] ELSE stored[f]]

InFlight(e) == {w \in Workers : recPc[w] # "idle" /\ recLoc[w].id = e}

\* findById (329) up to the constructed apiRequest (395-420).  endTime is
\* the reading of the clock at 388 in milliseconds, counted from the reading
\* at startTime.
RecBegin(w) ==
    /\ recPc[w] = "idle"
    /\ recLog.started < MaxProbes
    /\ \E e \in EndpointIds, o \in Outcomes :
          /\ recLoc' = [recLoc EXCEPT ![w] =
                 [id |-> e, loaded |-> endpoints[e].metrics,
                  apiRequest |-> ApiRequest(recLog.started + 1, e, "development",
                                            o[1], now, o[2]),
                  endTime |-> o[2]]]
          /\ recLog' = [recLog EXCEPT !.started = @ + 1,
                                      !.overlapped = @ \/ InFlight(e) # {}]
    /\ recPc' = [recPc EXCEPT ![w] = "save"]
    /\ UNCHANGED <<products, crudPc, crudLoc, crudLog, performance, ttlMonitor, doc, now, endpoints, apiRequests, analytics, overview, testPc, testLoc>>

\* await apiRequest.save() (422)
RecSaveRequest(w) ==
    /\ recPc[w] = "save"
    /\ apiRequests' = apiRequests \cup {recLoc[w].apiRequest}
    /\ recPc' = [recPc EXCEPT ![w] = "update"]
    /\ UNCHANGED <<products, crudPc, crudLoc, crudLog, performance, ttlMonitor, doc, now, endpoints, analytics, overview, testPc, testLoc, recLoc, recLog>>

\* await apiRequest.save() rejects (the store fails): the outer catch
RecSaveRequestFails(w) ==
    /\ recPc[w] = "save"
    /\ recPc' = [recPc EXCEPT ![w] = "done"]
    /\ recLoc' = [recLoc EXCEPT ![w] =
           [id |-> recLoc[w].id, loaded |-> recLoc[w].loaded,
            apiRequest |-> recLoc[w].apiRequest,
            response |-> Response(500, "Server error while testing endpoint")]]
    /\ UNCHANGED <<products, crudPc, crudLoc, crudLog, performance, ttlMonitor, doc, now, endpoints, apiRequests, analytics, overview, testPc, testLoc, recLog>>

\* milliseconds that pass while apiRequest.save() is awaited (422)
AwaitMillis == {0, 1}

\* the save written as an update without the _id in its filter: every
\* endpoint gets the metrics
RecSaveEndpointEverywhere(w) ==
    /\ recPc[w] = "update"
    /\ LET e == recLoc[w].id
           r == recLoc[w].apiRequest
           updated == UpdateMetrics(recLoc[w].loaded, r.statusCode, r.duration)
       IN /\ endpoints' = [b \in DOMAIN endpoints |->
                               [endpoints[b] EXCEPT !.metrics =
                                   SaveMetrics(@, recLoc[w].loaded, updated)]]
          /\ \E elapsed \in AwaitMillis :
                recLoc' = [recLoc EXCEPT ![w] =
                    [id |-> e, loaded |-> recLoc[w].loaded, apiRequest |-> r,
                     metrics |-> updated,
                     endTime |-> recLoc[w].endTime,
                     lastRequestTime |-> recLoc[w].endTime + elapsed,
                     response |-> Response(200, "API test completed")]]
          /\ recLog' = [recLog EXCEPT
                 !.completed[e] = @ + 1,
                 !.successes[e] = IF IsSuccess(r.statusCode) THEN @ + 1 ELSE @,
                 !.errors[e] = IF IsError(r.statusCode) THEN @ + 1 ELSE @,
                 !.sumDuration[e] = @ + r.duration]
    /\ recPc' = [recPc EXCEPT ![w] = "done"]
    /\ UNCHANGED <<products, crudPc, crudLoc, crudLog, performance, ttlMonitor, doc, now, apiRequests, analytics, overview, testPc, testLoc>>

\* the metrics update (424-439), await endpoint.save() (441) and the answer.
\* metrics.lastRequestTime is new Date() at 426, a reading taken after the
\* await of 422; it is kept with the request that wrote it.
RecSaveEndpoint(w) ==
    /\ recPc[w] = "update"
    /\ LET e == recLoc[w].id
           r == recLoc[w].apiRequest
           updated == UpdateMetrics(recLoc[w].loaded, r.statusCode, r.duration)
       IN /\ endpoints' = [endpoints EXCEPT ![e].metrics =
                               SaveMetrics(@, recLoc[w].loaded, updated)]
          /\ \E elapsed \in AwaitMillis :
                recLoc' = [recLoc EXCEPT ![w] =
                    [id |-> e, loaded |-> recLoc[w].loaded, apiRequest |-> r,
                     metrics |-> updated,
                     endTime |-> recLoc[w].endTime,
                     lastRequestTime |-> recLoc[w].endTime + elapsed,
                     response |-> Response(200, "API test completed")]]
          /\ recLog' = [recLog EXCEPT
                 !.completed[e] = @ + 1,
                 !.successes[e] = IF IsSuccess(r.statusCode) THEN @ + 1 ELSE @,
                 !.errors[e] = IF IsError(r.statusCode) THEN @ + 1 ELSE @,
                 !.sumDuration[e] = @ + r.duration]
    /\ recPc' = [recPc EXCEPT ![w] = "done"]
    /\ UNCHANGED <<products, crudPc, crudLoc, crudLog, performance, ttlMonitor, doc, now, apiRequests, analytics, overview, testPc, testLoc>>

\* await endpoint.save() rejects (the store fails): the outer catch
RecSaveEndpointFails(w) ==
    /\ recPc[w] = "update"
    /\ recPc' = [recPc EXCEPT ![w] = "done"]
    /\ recLoc' = [recLoc EXCEPT ![w] =
           [id |-> recLoc[w].id, loaded |-> recLoc[w].loaded,
            apiRequest |-> recLoc[w].apiRequest,
            response |-> Response(500, "Server error while testing endpoint")]]
    /\ UNCHANGED <<products, crudPc, crudLoc, crudLog, performance, ttlMonitor, doc, now, endpoints, apiRequests, analytics, overview, testPc, testLoc, recLog>>

\* the response is sent: the request is over
RecEnd(w) ==
    /\ recPc[w] = "done"
    /\ recPc' = [recPc EXCEPT ![w] = "idle"]
    /\ recLoc' = [recLoc EXCEPT ![w] = <<>>]
    /\ UNCHANGED <<products, crudPc, crudLoc, crudLog, performance, ttlMonitor, doc, now, endpoints, apiRequests, analytics, overview, testPc, testLoc, recLog>>

InitRecorder ==
    /\ InitIdle
    /\ apiRequests = {}

NextRecorder ==
    \E w \in Workers :
        \/ RecBegin(w)
        \/ RecSaveRequest(w)
        \/ RecSaveRequestFails(w)
        \/ RecSaveEndpoint(w)
        \/ RecSaveEndpointFails(w)
        \/ RecEnd(w)

SpecRecorder == InitRecorder /\ [][NextRecorder]_vars

-----------------------------------------------------------------------------
(* Retention: the TTL index on timing.startTime *)

MaxTicks == 3        \* steps of the clock in SpecRetention

\* one step of the clock: 40 days
TickMinutes == 40 * 1440

\* { expireAfterSeconds: 7776000 }
ExpireAfterSeconds == 7776000

\* the index option taken for milliseconds: a thousand times the horizon
ExpiredAfterMilliseconds(r, t) == r.startTime + (ExpireAfterSeconds \div 60) * 1000 <= t

\* what the TTL monitor deletes at t: the documents whose indexed date lies
\* expireAfterSeconds or more in the past
Expired(r, t) == r.startTime + ExpireAfterSeconds \div 60 <= t

\* time passes
ClockAdvances ==
    /\ analytics = NoAnswer
    /\ now < Clock + MaxTicks * TickMinutes
    /\ now' = now + TickMinutes
    /\ UNCHANGED <<products, crudPc, crudLoc, crudLog, performance, ttlMonitor, doc, endpoints, apiRequests, analytics, overview,
                   testPc, testLoc, recPc, recLoc, recLog>>

\* a pass of the TTL monitor (a background task of the database)
TtlPass ==
    /\ analytics = NoAnswer
    /\ ttlMonitor.lastPass < now
    /\ apiRequests' = {r \in apiRequests : ~Expired(r, now)}
    /\ ttlMonitor' = [lastPass |-> now,
                      deleted |-> ttlMonitor.deleted
                                    + Cardinality({r \in apiRequests : Expired(r, now)})]
    /\ UNCHANGED <<products, crudPc, crudLoc, crudLog, performance, doc, now, endpoints, analytics, overview,
                   testPc, testLoc, recPc, recLoc, recLog>>

InitRetention ==
    /\ InitIdle
    /\ apiRequests \in {S \in SUBSET SampleRequests : Cardinality(S) <= MaxRecords}

NextRetention == ClockAdvances \/ TtlPass \/ GetAnalytics

SpecRetention == InitRetention /\ [][NextRetention]_vars

-----------------------------------------------------------------------------
(* ApiRequest: document.save() with the pre('save') middleware *)

(* SpecSave examines what save() stores of the timing a writer supplied.   *)
(* Here startTime and endTime are readings of the wall clock in            *)
(* milliseconds (getTime()), counted from the reading at Clock.  The wall  *)
(* clock can be set back while a request is under way, so the later        *)
(* reading is not always the larger one.                                   *)

MaxSaves == 2        \* documents saved in SpecSave

\* new Date().getTime() at startTime and at endTime
Readings == 0..2

\* timing.duration as the writer supplies it
SuppliedDurations == -1..1

\* timing of a new document: complete, or without one of the required paths
Timings ==
    [startTime : Readings, endTime : Readings, duration : SuppliedDurations]
        \cup [startTime : Readings, endTime : Readings]
        \cup [startTime : Readings, duration : SuppliedDurations]

\* the required paths of timing (validation runs before the pre('save') hooks)
Valid(timing) == {"startTime", "endTime", "duration"} \subseteq DOMAIN timing

\* the middleware with the assignment left out: the supplied value is stored
PreSaveKeepsSupplied(timing) == timing

\* apiRequestSchema.pre('save')
PreSave(timing) ==
    IF "startTime" \in DOMAIN timing /\ "endTime" \in DOMAIN timing
    THEN [startTime |-> timing.startTime, endTime |-> timing.endTime,
          duration |-> timing.endTime - timing.startTime]
    ELSE timing

\* new ApiRequest({ ..., timing: { startTime, endTime, duration } })
DocNew ==
    /\ doc = NoDoc
    /\ Cardinality(apiRequests) < MaxSaves
    /\ \E timing \in Timings :
          doc' = [state |-> "new", requestId |-> Cardinality(apiRequests) + 1,
                  timing |-> timing]
    /\ UNCHANGED <<products, crudPc, crudLoc, crudLog, performance, ttlMonitor, now, endpoints, apiRequests, analytics, overview,
                   testPc, testLoc, recPc, recLoc, recLog>>

\* await document.save(): validation, the middleware, the insert
DocSave ==
    /\ doc.state = "new"
    /\ Valid(doc.timing)
    /\ LET timing == PreSave(doc.timing)
       IN apiRequests' = apiRequests \cup
              {[requestId |-> doc.requestId, startTime |-> timing.startTime,
                endTime |-> timing.endTime, duration |-> timing.duration]}
    /\ doc' = [doc EXCEPT !.state = "saved"]
    /\ UNCHANGED <<products, crudPc, crudLoc, crudLog, performance, ttlMonitor, now, endpoints, analytics, overview,
                   testPc, testLoc, recPc, recLoc, recLog>>

\* await document.save() rejects with a ValidationError: nothing is stored
DocSaveRejected ==
    /\ doc.state = "new"
    /\ ~Valid(doc.timing)
    /\ doc' = [doc EXCEPT !.state = "rejected"]
    /\ UNCHANGED <<products, crudPc, crudLoc, crudLog, performance, ttlMonitor, now, endpoints, apiRequests, analytics, overview,
                   testPc, testLoc, recPc, recLoc, recLog>>

\* the writer goes on
DocEnd ==
    /\ doc.state \in {"saved", "rejected"}
    /\ doc' = NoDoc
    /\ UNCHANGED <<products, crudPc, crudLoc, crudLog, performance, ttlMonitor, now, endpoints, apiRequests, analytics, overview,
                   testPc, testLoc, recPc, recLoc, recLog>>

InitSave ==
    /\ InitIdle
    /\ apiRequests = {}

NextSave == DocNew \/ DocSave \/ DocSaveRejected \/ DocEnd

SpecSave == InitSave /\ [][NextSave]_vars

-----------------------------------------------------------------------------
(* Properties of the probe *)

\* no request is between reading endpoint e and its answer
Quiet(e) == InFlight(e) = {}

C4_NetworkErrorIsRecorded ==
    \A w \in Workers :
        (testPc[w] = "done" /\ testLoc[w].fetch = "threw") =>
            /\ testLoc[w].response = Response(200, "API test completed")
            /\ Cardinality({r \in apiRequests :
                               r.endpoint = testLoc[w].id /\ r.statusCode = 0}) = 1

IsRate(x, total) == x \in 0..100 /\ (total = 0 => x = 100)

-----------------------------------------------------------------------------
(* Properties of the analytics query *)

Answered == analytics # NoAnswer

\* the stored documents the answered query asks for: startTime in the range,
\* and of the product and the environment it names
Asked ==
    {r \in apiRequests :
        /\ ~(r.startTime < analytics.startDate)
        /\ analytics.product \in {NoFilter, r.product}
        /\ analytics.environment \in {NoFilter, r.environment}}

RECURSIVE SumTotalRequests(_)
SumTotalRequests(a) ==
    IF a = <<>> THEN 0 ELSE Head(a).totalRequests + SumTotalRequests(Tail(a))

C9_AscendingTimestamps ==
    Answered =>
        LET a == analytics.analytics IN
        /\ \A i \in 1..Len(a) : a[i].totalRequests >= 1
        /\ \A i, j \in 1..Len(a) : i < j => a[i].timestamp < a[j].timestamp

\* the calendar hour, day and month of an instant, and its week both as a
\* week that begins on Sunday and as one that begins on Monday
SameCalendarUnit(groupBy, t, u) ==
    CASE groupBy = "hour"  -> t \div 60 = u \div 60
      [] groupBy = "day"   -> t \div 1440 = u \div 1440
      [] groupBy = "week"  -> /\ (DayNumber(t) + 4) \div 7 = (DayNumber(u) + 4) \div 7
                              /\ (DayNumber(t) + 3) \div 7 = (DayNumber(u) + 3) \div 7
      [] groupBy = "month" -> Year(t) = Year(u) /\ Month(t) = Month(u)

\* C10: matching documents of one calendar hour, day, week or month are
\* aggregated into one bucket, also in the week that contains 1 January.
C10_SameUnitSameBucket ==
    (/\ Answered
     /\ Asked # {}
     /\ \A r1, r2 \in Asked :
            SameCalendarUnit(analytics.groupBy, r1.startTime, r2.startTime))
    => Len(analytics.analytics) = 1

-----------------------------------------------------------------------------
(* Properties of the stored timing *)

\* C11: every stored record has timing.duration >= 0, also when the wall
\* clock read an earlier time at endTime than at startTime (a zero floor).
C11_DurationNeverNegative ==
    \A r \in apiRequests : r.duration >= 0

\* C12: every stored record has timing.duration = timing.endTime -
\* timing.startTime, whatever duration the writer supplied.
C12_DurationIsRecomputed ==
    \A r \in apiRequests : r.duration = r.endTime - r.startTime

\* C12 witness: a document was saved whose supplied duration was not the
\* difference of its endTime and startTime.
C12_Witness ==
    /\ doc.state = "saved"
    /\ doc.timing.duration # doc.timing.endTime - doc.timing.startTime
    /\ \E r \in apiRequests : r.requestId = doc.requestId

-----------------------------------------------------------------------------
(* The metrics of an endpoint against its stored records *)

RecordsOf(e) == {r \in apiRequests : r.endpoint = e}

-----------------------------------------------------------------------------
(* The answer of the probe *)

\* C14: a probe that made its call answers only after the record and then
\* the endpoint's metrics were saved: when it answers, its record is stored
\* and the endpoint's totalRequests already counts it.
C14_AnswerFollowsBothSaves ==
    \A w \in Workers :
        (testPc[w] = "done" /\ testLoc[w].fetch # "none") =>
            /\ testLoc[w].response.status = 200
            /\ \E r \in apiRequests :
                  r.endpoint = testLoc[w].id /\ r.statusCode = testLoc[w].statusCode
            /\ endpoints[testLoc[w].id].metrics.totalRequests >= 1

-----------------------------------------------------------------------------
(* The outgoing call of the probe *)

\* C15: every probe resolves: whatever the target does, a probe that has
\* made its call is answered in the end; none stays in flight forever.
C15_EveryProbeResolves ==
    \A w \in Workers : (testPc[w] = "fetch") ~> (testPc[w] = "done")

\* the requests whose outgoing call is in flight
Fetching == {w \in Workers : testPc[w] = "fetch"}

\* C16: the number of outgoing calls in flight stays within a ceiling,
\* whatever the number of concurrent requests: of the requests under way,
\* at least one is kept from calling while the others are.
C16_OutgoingCallsBounded ==
    Cardinality(Fetching) < Cardinality(Workers)

-----------------------------------------------------------------------------
(* Properties of the retention *)

\* a document whose startTime is more than 90 days before t
OlderThanHorizon(r, t) == r.startTime + 90 * 1440 < t

C17_WitnessBefore ==
    /\ Answered
    /\ ttlMonitor.lastPass = -1
    /\ \E r \in Asked : OlderThanHorizon(r, now)

-----------------------------------------------------------------------------
(* Properties of the performance query and of the rankings *)

\* the stored documents the answered performance query asks for
AskedPerformance ==
    {r \in apiRequests :
        /\ ~(r.startTime < performance.startDate)
        /\ performance.product \in {NoFilter, r.product}
        /\ performance.endpoint \in {NoFilter, r.endpoint}}

\* C18: for every non-empty filtered set the performance query reports
\* min <= p50 <= p90 <= p95 <= p99 <= max of the durations.
C18_PercentilesMonotone ==
    (performance # NoAnswer /\ AskedPerformance # {}) =>
        /\ performance.status = 200
        /\ performance.metrics.minResponseTime <= performance.metrics.p50ResponseTime
        /\ performance.metrics.p50ResponseTime <= performance.metrics.p90ResponseTime
        /\ performance.metrics.p90ResponseTime <= performance.metrics.p95ResponseTime
        /\ performance.metrics.p95ResponseTime <= performance.metrics.p99ResponseTime
        /\ performance.metrics.p99ResponseTime <= performance.metrics.maxResponseTime

\* the identifiers of the two products in ascending order
IdBefore(a, b) == a = "p1" /\ b = "p2"

\* C19: the ranking has at most 10 entries in descending order of request
\* count, entries with equal counts in ascending order of their identifier
\* (so equal data always gives the same order).
C19_RankingDeterministic ==
    overview # NoAnswer =>
        LET top == overview.topProducts IN
        /\ Len(top) <= 10
        /\ \A i, j \in 1..Len(top) :
              i < j => \/ top[i].requestCount > top[j].requestCount
                       \/ /\ top[i].requestCount = top[j].requestCount
                          /\ IdBefore(top[i]._id, top[j]._id)

\* C20: the performance query is always answered with the slow and the very
\* slow count and their percentages of the total; when nothing matches both
\* percentages are 0.
C20_SlowPercentagesReported ==
    performance # NoAnswer =>
        /\ performance.status = 200
        /\ {"slowRequests", "verySlowRequests", "slowRequestPercentage",
            "verySlowRequestPercentage"} \subseteq DOMAIN performance.metrics
        /\ performance.metrics.totalRequests = 0 =>
              /\ performance.metrics.slowRequestPercentage = 0
              /\ performance.metrics.verySlowRequestPercentage = 0

-----------------------------------------------------------------------------
(* Properties of the bucket's distinct users *)

\* the documents of the answered query that fall into the bucket with the
\* given timestamp
InBucket(timestamp) ==
    {r \in Asked :
        Timestamp(analytics.groupBy, GroupFields(analytics.groupBy, r.startTime)) = timestamp}

\* C21: the distinct-user count of each bucket is the number of different
\* user identifiers present on its documents; a document without one adds
\* nothing, so a bucket of such documents only reports 0.
C21_DistinctUsersPresent ==
    Answered =>
        \A i \in 1..Len(analytics.analytics) :
            analytics.analytics[i].uniqueUserCount =
                Cardinality({r.userId : r \in InBucket(analytics.analytics[i].timestamp)}
                                \ {NoUser})

-----------------------------------------------------------------------------
(* Properties of the latency histogram *)

RECURSIVE SumCount(_)
SumCount(D) ==
    IF D = {} THEN 0
    ELSE LET d == CHOOSE x \in D : TRUE IN d.count + SumCount(D \ {d})

\* C22: the performance query reports a histogram in which every matching
\* document is counted in exactly one bin, the bin of its duration over the
\* boundaries 0, 100, 500, 1000, 2000, 5000, 10000, 30000 or the overflow
\* bin, so that the counts add up to the number of matching documents.
C22_HistogramCountsEveryMatch ==
    performance # NoAnswer =>
        /\ performance.status = 200
        /\ SumCount(performance.responseTimeDistribution) = Cardinality(AskedPerformance)
        /\ \A r \in AskedPerformance :
              \E d \in performance.responseTimeDistribution :
                  /\ d._id = (CASE r.duration >= 30000 -> 0
                                [] r.duration >= 10000 -> 7
                                [] r.duration >= 5000 -> 6
                                [] r.duration >= 2000 -> 5
                                [] r.duration >= 1000 -> 4
                                [] r.duration >= 500 -> 3
                                [] r.duration >= 100 -> 2
                                [] OTHER -> 1)
                  /\ d.count >= 1

-----------------------------------------------------------------------------
(* Properties of the outgoing call's headers *)

\* C23: the call is sent with the endpoint's declared headers and the
\* caller's headers merged on top: a declared header that is not overridden
\* is sent with its declared value, an overridden one with the override.
C23_DeclaredHeadersMerged ==
    \A w \in Workers :
        testPc[w] = "fetch" =>
            LET declared == testLoc[w].endpoint.headers
                override == testLoc[w].headers
                sent == testLoc[w].requestHeaders
            IN /\ \A name \in DOMAIN override :
                     name \in DOMAIN sent /\ sent[name] = override[name]
               /\ \A name \in DOMAIN declared \ DOMAIN override :
                     name \in DOMAIN sent /\ sent[name] = declared[name]

-----------------------------------------------------------------------------
(* Properties of the probe's rejections *)

\* C25: a probe fails only for malformed input or an unknown endpoint, and
\* then before any outgoing call and any write: a probe that is answered
\* with a failure has made no call, and the record store and the metrics of
\* every endpoint are as they were; a probe that made its call, network
\* error included, does not fail.
C25_FailsOnlyBeforeTheCall ==
    \A w \in Workers :
        (testPc[w] = "done" /\ testLoc[w].response.status # 200) =>
            /\ testLoc[w].fetch = "none"
            /\ testLoc[w].response.status \in {400, 404}
            /\ apiRequests = {}
            /\ \A e \in DOMAIN endpoints : endpoints[e].metrics = DefaultMetrics

-----------------------------------------------------------------------------
(* Properties of the recording across endpoints *)

-----------------------------------------------------------------------------
(* POST, PUT and DELETE /endpoints(/:id) and DELETE /products/:id.  Every
   action is one stretch of a handler between two awaits; the database answers
   every operation. *)

MaxCrud == 3

\* the _id a new ApiEndpoint gets: never one that was used before
NewIds == <<"e3", "e4", "e5", "e6", "e7">>

\* an id that names no stored endpoint
NoEndpointId == "e9"

\* req.body of POST /endpoints; status is not validated, the schema takes it
\* (default 'active')
CreateBodies ==
    {[product |-> "p1", status |-> st, baseUrl |-> "a", path |-> "/x"] :
        st \in {"active", "inactive"}}

\* req.body of PUT /endpoints/:id: every field is optional
UpdateBodies ==
    {[f \in {} |-> ""],
     "status" :> "inactive",
     "baseUrl" :> "b",
     "path" :> "/y",
     ("baseUrl" :> "b") @@ ("path" :> "/y")}

\* $set of the fields of the update on a stored document
ApplyUpdate(document, updateData) ==
    [f \in DOMAIN document |->
        IF f \in DOMAIN updateData THEN updateData[f] ELSE document[f]]

\* a collection without the document of this id
Without(collection, id) == [k \in DOMAIN collection \ {id} |-> collection[k]]

CrudStart(w) ==
    /\ crudPc[w] = "idle"
    /\ crudLog.started < MaxCrud

\* POST /endpoints: validation and await Product.findById (98-114)
CreateFindProduct(w) ==
    /\ CrudStart(w)
    /\ \E body \in CreateBodies, valid \in BOOLEAN :
          IF ~valid
          THEN /\ crudPc' = [crudPc EXCEPT ![w] = "done"]
               /\ crudLoc' = [crudLoc EXCEPT ![w] =
                      [op |-> "create", id |-> body.product,
                       response |-> Response(400, "Validation errors")]]
          ELSE IF body.product \notin DOMAIN products
          THEN /\ crudPc' = [crudPc EXCEPT ![w] = "done"]
               /\ crudLoc' = [crudLoc EXCEPT ![w] =
                      [op |-> "create", id |-> body.product,
                       response |-> Response(404, "Product not found")]]
          ELSE /\ crudPc' = [crudPc EXCEPT ![w] = "createSave"]
               /\ crudLoc' = [crudLoc EXCEPT ![w] =
                      [op |-> "create", id |-> body.product, body |-> body,
                       product |-> products[body.product]]]
    /\ crudLog' = [crudLog EXCEPT !.started = @ + 1]
    /\ UNCHANGED <<performance, ttlMonitor, doc, now, endpoints, apiRequests,
                   analytics, overview, testPc, testLoc, recPc, recLoc, recLog,
                   products>>

\* endpointData, new ApiEndpoint and await endpoint.save() with its pre-save
\* hook (119-126), then the counters of the loaded product (129-132)
CreateSaveEndpoint(w) ==
    /\ crudPc[w] = "createSave"
    /\ LET body == crudLoc[w].body
           id == NewIds[crudLog.created + 1]
           loaded == crudLoc[w].product.metrics
       IN /\ endpoints' = endpoints @@
                 (id :> ApiEndpoint(body.product, body.status, body.baseUrl, body.path))
          /\ crudLoc' = [crudLoc EXCEPT ![w] =
                 [op |-> "create", id |-> body.product, endpoint |-> id,
                  product |-> Product(loaded.totalApis + 1,
                                      IF body.status = "active"
                                      THEN loaded.activeApis + 1
                                      ELSE loaded.activeApis)]]
    /\ crudLog' = [crudLog EXCEPT !.created = @ + 1]
    /\ crudPc' = [crudPc EXCEPT ![w] = "createSaveProduct"]
    /\ UNCHANGED <<performance, ttlMonitor, doc, now, apiRequests,
                   analytics, overview, testPc, testLoc, recPc, recLoc, recLog,
                   products>>

\* await product.save() on a loaded document (133, 289): an update of the
\* document of that _id with the loaded metrics as changed in memory.  When
\* the document is gone nothing is written, and the save either throws
\* (DocumentNotFoundError) or passes, depending on the Mongoose version.
SaveProduct(id, product) ==
    IF id \in DOMAIN products
    THEN [products EXCEPT ![id].metrics = product.metrics]
    ELSE products

\* await product.save() (133), the populates and the answer (136-145)
CreateSaveProduct(w) ==
    /\ crudPc[w] = "createSaveProduct"
    /\ products' = SaveProduct(crudLoc[w].id, crudLoc[w].product)
    /\ \E thrown \in BOOLEAN :
          /\ thrown => crudLoc[w].id \notin DOMAIN products
          /\ crudLoc' = [crudLoc EXCEPT ![w] =
                 [op |-> "create", id |-> crudLoc[w].id,
                  endpoint |-> crudLoc[w].endpoint,
                  response |-> IF thrown
                               THEN Response(500, "Server error while creating endpoint")
                               ELSE Response(201, "API endpoint created successfully")]]
    /\ crudPc' = [crudPc EXCEPT ![w] = "done"]
    /\ UNCHANGED <<performance, ttlMonitor, doc, now, endpoints, apiRequests,
                   analytics, overview, testPc, testLoc, recPc, recLoc, recLog,
                   crudLog>>

\* PUT /endpoints/:id: validation and, when the body carries baseUrl or path,
\* await ApiEndpoint.findById and the new fullUrl (210-233).  Reading
\* .baseUrl or .path of a null currentEndpoint throws a TypeError, caught at
\* 258-264.
UpdateBegin(w) ==
    /\ CrudStart(w)
    /\ \E id \in {"e1", NoEndpointId}, body \in UpdateBodies, valid \in BOOLEAN :
          LET hasBaseUrl == "baseUrl" \in DOMAIN body
              hasPath == "path" \in DOMAIN body
              found == id \in DOMAIN endpoints
              newBaseUrl == IF hasBaseUrl THEN body.baseUrl ELSE endpoints[id].baseUrl
              newPath == IF hasPath THEN body.path ELSE endpoints[id].path
          IN IF ~valid
             THEN /\ crudPc' = [crudPc EXCEPT ![w] = "done"]
                  /\ crudLoc' = [crudLoc EXCEPT ![w] =
                         [op |-> "update", id |-> id,
                          response |-> Response(400, "Validation errors")]]
             ELSE IF ~(hasBaseUrl \/ hasPath)
             THEN /\ crudPc' = [crudPc EXCEPT ![w] = "updateWrite"]
                  /\ crudLoc' = [crudLoc EXCEPT ![w] =
                         [op |-> "update", id |-> id, updateData |-> body]]
             ELSE IF ~found /\ ~(hasBaseUrl /\ hasPath)
             THEN /\ crudPc' = [crudPc EXCEPT ![w] = "done"]
                  /\ crudLoc' = [crudLoc EXCEPT ![w] =
                         [op |-> "update", id |-> id,
                          response |-> Response(500, "Server error while updating endpoint")]]
             ELSE /\ crudPc' = [crudPc EXCEPT ![w] = "updateWrite"]
                  /\ crudLoc' = [crudLoc EXCEPT ![w] =
                         [op |-> "update", id |-> id,
                          updateData |-> body @@ ("fullUrl" :> newBaseUrl \o newPath)]]
    /\ crudLog' = [crudLog EXCEPT !.started = @ + 1]
    /\ UNCHANGED <<performance, ttlMonitor, doc, now, endpoints, apiRequests,
                   analytics, overview, testPc, testLoc, recPc, recLoc, recLog,
                   products>>

\* await ApiEndpoint.findByIdAndUpdate (235-242, no save hook runs) and the
\* answer (244-256)
UpdateWrite(w) ==
    /\ crudPc[w] = "updateWrite"
    /\ LET id == crudLoc[w].id
       IN IF id \in DOMAIN endpoints
          THEN /\ endpoints' = [endpoints EXCEPT
                      ![id] = ApplyUpdate(@, crudLoc[w].updateData)]
               /\ crudLoc' = [crudLoc EXCEPT ![w] =
                      [op |-> "update", id |-> id,
                       response |-> Response(200, "API endpoint updated successfully")]]
          ELSE /\ endpoints' = endpoints
               /\ crudLoc' = [crudLoc EXCEPT ![w] =
                      [op |-> "update", id |-> id,
                       response |-> Response(404, "API endpoint not found")]]
    /\ crudPc' = [crudPc EXCEPT ![w] = "done"]
    /\ UNCHANGED <<performance, ttlMonitor, doc, now, apiRequests,
                   analytics, overview, testPc, testLoc, recPc, recLoc, recLog,
                   products, crudLog>>

\* DELETE /endpoints/:id: await ApiEndpoint.findById (272-280)
DeleteFind(w) ==
    /\ CrudStart(w)
    /\ \E id \in {"e1", NoEndpointId} :
          IF id \in DOMAIN endpoints
          THEN /\ crudPc' = [crudPc EXCEPT ![w] = "deleteFindProduct"]
               /\ crudLoc' = [crudLoc EXCEPT ![w] =
                      [op |-> "delete", id |-> id,
                       endpoint |-> [product |-> endpoints[id].product,
                                     status |-> endpoints[id].status]]]
          ELSE /\ crudPc' = [crudPc EXCEPT ![w] = "done"]
               /\ crudLoc' = [crudLoc EXCEPT ![w] =
                      [op |-> "delete", id |-> id,
                       response |-> Response(404, "API endpoint not found")]]
    /\ crudLog' = [crudLog EXCEPT !.started = @ + 1]
    /\ UNCHANGED <<performance, ttlMonitor, doc, now, endpoints, apiRequests,
                   analytics, overview, testPc, testLoc, recPc, recLoc, recLog,
                   products>>

\* await Product.findById(endpoint.product) and the counters of the loaded
\* product (283-288)
DeleteFindProduct(w) ==
    /\ crudPc[w] = "deleteFindProduct"
    /\ LET endpoint == crudLoc[w].endpoint
           found == endpoint.product \in DOMAIN products
           loaded == products[endpoint.product].metrics
       IN IF found
          THEN /\ crudPc' = [crudPc EXCEPT ![w] = "deleteSaveProduct"]
               /\ crudLoc' = [crudLoc EXCEPT ![w] =
                      [op |-> "delete", id |-> crudLoc[w].id, endpoint |-> endpoint,
                       product |-> Product(loaded.totalApis - 1,
                                           IF endpoint.status = "active"
                                           THEN loaded.activeApis - 1
                                           ELSE loaded.activeApis)]]
          ELSE /\ crudPc' = [crudPc EXCEPT ![w] = "deleteRemove"]
               /\ crudLoc' = crudLoc
    /\ UNCHANGED <<performance, ttlMonitor, doc, now, endpoints, apiRequests,
                   analytics, overview, testPc, testLoc, recPc, recLoc, recLog,
                   products, crudLog>>

\* await product.save() (289)
DeleteSaveProduct(w) ==
    /\ crudPc[w] = "deleteSaveProduct"
    /\ products' = SaveProduct(crudLoc[w].endpoint.product, crudLoc[w].product)
    /\ \E thrown \in BOOLEAN :
          /\ thrown => crudLoc[w].endpoint.product \notin DOMAIN products
          /\ IF thrown
             THEN /\ crudPc' = [crudPc EXCEPT ![w] = "done"]
                  /\ crudLoc' = [crudLoc EXCEPT ![w] =
                         [op |-> "delete", id |-> crudLoc[w].id,
                          response |-> Response(500, "Server error while deleting endpoint")]]
             ELSE /\ crudPc' = [crudPc EXCEPT ![w] = "deleteRemove"]
                  /\ crudLoc' = crudLoc
    /\ UNCHANGED <<performance, ttlMonitor, doc, now, endpoints, apiRequests,
                   analytics, overview, testPc, testLoc, recPc, recLoc, recLog,
                   crudLog>>

\* await ApiEndpoint.findByIdAndDelete and the answer (292-297)
DeleteRemove(w) ==
    /\ crudPc[w] = "deleteRemove"
    /\ endpoints' = Without(endpoints, crudLoc[w].id)
    /\ crudLoc' = [crudLoc EXCEPT ![w] =
           [op |-> "delete", id |-> crudLoc[w].id,
            response |-> Response(200, "API endpoint deleted successfully")]]
    /\ crudPc' = [crudPc EXCEPT ![w] = "done"]
    /\ UNCHANGED <<performance, ttlMonitor, doc, now, apiRequests,
                   analytics, overview, testPc, testLoc, recPc, recLoc, recLog,
                   products, crudLog>>

\* DELETE /products/:id: await ApiEndpoint.countDocuments({ product: id })
\* (products.js 242-251)
ProductDeleteCount(w) ==
    /\ CrudStart(w)
    /\ \E id \in {"p1"} :
          LET apiCount == Cardinality({e \in DOMAIN endpoints : endpoints[e].product = id})
          IN IF apiCount > 0
             THEN /\ crudPc' = [crudPc EXCEPT ![w] = "done"]
                  /\ crudLoc' = [crudLoc EXCEPT ![w] =
                         [op |-> "productDelete", id |-> id,
                          response |-> Response(400,
                              "Cannot delete product with " \o ToString(apiCount)
                              \o " associated APIs. Please remove APIs first.")]]
             ELSE /\ crudPc' = [crudPc EXCEPT ![w] = "productRemove"]
                  /\ crudLoc' = [crudLoc EXCEPT ![w] =
                         [op |-> "productDelete", id |-> id]]
    /\ crudLog' = [crudLog EXCEPT !.started = @ + 1]
    /\ UNCHANGED <<performance, ttlMonitor, doc, now, endpoints, apiRequests,
                   analytics, overview, testPc, testLoc, recPc, recLoc, recLog,
                   products>>

\* await Product.findByIdAndDelete and the answer (products.js 253-264)
ProductDeleteRemove(w) ==
    /\ crudPc[w] = "productRemove"
    /\ LET id == crudLoc[w].id
       IN /\ products' = Without(products, id)
          /\ crudLoc' = [crudLoc EXCEPT ![w] =
                 [op |-> "productDelete", id |-> id,
                  response |-> IF id \in DOMAIN products
                               THEN Response(200, "Product deleted successfully")
                               ELSE Response(404, "Product not found")]]
    /\ crudPc' = [crudPc EXCEPT ![w] = "done"]
    /\ UNCHANGED <<performance, ttlMonitor, doc, now, endpoints, apiRequests,
                   analytics, overview, testPc, testLoc, recPc, recLoc, recLog,
                   crudLog>>

\* the answer has been sent; the connection takes the next request
CrudEnd(w) ==
    /\ crudPc[w] = "done"
    /\ crudPc' = [crudPc EXCEPT ![w] = "idle"]
    /\ crudLoc' = [crudLoc EXCEPT ![w] = <<>>]
    /\ UNCHANGED <<performance, ttlMonitor, doc, now, endpoints, apiRequests,
                   analytics, overview, testPc, testLoc, recPc, recLoc, recLog,
                   products, crudLog>>

InitCrud ==
    /\ InitIdle
    /\ apiRequests = {}

NextCrud ==
    \E w \in Workers :
        \/ CreateFindProduct(w)
        \/ CreateSaveEndpoint(w)
        \/ CreateSaveProduct(w)
        \/ UpdateBegin(w)
        \/ UpdateWrite(w)
        \/ DeleteFind(w)
        \/ DeleteFindProduct(w)
        \/ DeleteSaveProduct(w)
        \/ DeleteRemove(w)
        \/ ProductDeleteCount(w)
        \/ ProductDeleteRemove(w)
        \/ CrudEnd(w)

SpecCrud == InitCrud /\ [][NextCrud]_vars

-----------------------------------------------------------------------------
(* Properties of the endpoint and product requests *)

EndpointsOf(p) == {e \in DOMAIN endpoints : endpoints[e].product = p}

CrudQuiet == \A w \in Workers : crudPc[w] \in {"idle", "done"}

\* C27: once the create, update and delete requests have been answered,
\* each product's totalApis is the number of its stored endpoints and its
\* activeApis the number of those with status 'active'; neither counter is
\* ever negative.
C27_CountersMatchEndpoints ==
    \A p \in DOMAIN products :
        /\ products[p].metrics.totalApis >= 0
        /\ products[p].metrics.activeApis >= 0
        /\ CrudQuiet =>
              /\ products[p].metrics.totalApis = Cardinality(EndpointsOf(p))
              /\ products[p].metrics.activeApis =
                     Cardinality({e \in EndpointsOf(p) : endpoints[e].status = "active"})

\* C28: every stored endpoint references a stored product: no product that
\* still has endpoints has been deleted.
C28_NoEndpointOfDeletedProduct ==
    \A e \in DOMAIN endpoints : endpoints[e].product \in DOMAIN products

\* C29: every stored endpoint has fullUrl = baseUrl followed by path.
C29_FullUrlIsBaseUrlAndPath ==
    \A e \in DOMAIN endpoints :
        endpoints[e].fullUrl = endpoints[e].baseUrl \o endpoints[e].path

\* C30: an update of an id that names no endpoint is answered with 404
\* 'API endpoint not found', whatever the body carries.
C30_UpdateOfMissingIs404 ==
    \A w \in Workers :
        (/\ crudPc[w] = "done"
         /\ crudLoc[w].op = "update"
         /\ crudLoc[w].id \notin DOMAIN endpoints
         /\ crudLoc[w].response.status # 400) =>
            crudLoc[w].response = Response(404, "API endpoint not found")

=============================================================================
